---------------------------- MODULE Spec2Model ----------------------------
(***************************************************************************)
(* A model of the smart-fridge ingest / recipe server (src/index.js).      *)
(*                                                                         *)
(* The server is a single Node.js process: every handler runs to its next  *)
(* await without interruption, and the MongoDB server applies one          *)
(* collection operation at a time.  A handler's continuation after an      *)
(* awaited database call touches only the handler's own locals, so the     *)
(* database operation and the continuation it resumes are modelled as one  *)
(* step (the operation takes effect when it is acknowledged).  The         *)
(* fire-and-forget eventsCollection.insertOne is not awaited and settles   *)
(* in a step of its own.                                                   *)
(*                                                                         *)
(* Time is counted in days; a Date is the number of its day.               *)
(***************************************************************************)
EXTENDS Integers, Sequences, FiniteSets, TLC

(***************************************************************************)
(* Bounds of the model.                                                    *)
(***************************************************************************)
\* POST /api/pi-data requests in one behaviour, each with its own handler
MaxRequests == 2
\* items in one vision result
MaxItems == 2
\* the server clock runs over 1..MaxTime
MaxTime == 2

Requests == 1..MaxRequests

(***************************************************************************)
(* Values.  A raw expiration_date of the vision output is absent (or       *)
(* another falsy value), an ISO string naming a day, or a string that      *)
(* names no date.  The stored value is null, a Date, or the Invalid Date   *)
(* new Date() makes of an unparseable string, which no range query with    *)
(* valid bounds matches.                                                   *)
(***************************************************************************)
Absent == [kind |-> "absent"]
IsoString(d) == [kind |-> "string", parses |-> TRUE, day |-> d]
Garbage == [kind |-> "string", parses |-> FALSE, day |-> 0]

NullValue == [kind |-> "null"]
DateValue(t) == [kind |-> "date", valid |-> TRUE, time |-> t]
InvalidDate == [kind |-> "date", valid |-> FALSE, time |-> 0]

\* new Date(string)
NewDate(s) == IF s.parses THEN DateValue(s.day) ELSE InvalidDate

\* item.expiration_date ? new Date(item.expiration_date) : null
ToExpirationDate(raw) ==
    IF raw.kind = "string" THEN NewDate(raw) ELSE NullValue

\* what the vision script may report as one detected item
ItemPool ==
    { [name |-> "milk", expiration_date |-> IsoString(2)],
      [name |-> "egg", expiration_date |-> Absent],
      [name |-> "jam", expiration_date |-> Garbage] }

RECURSIVE SeqsUpTo(_, _)
SeqsUpTo(S, n) ==
    IF n = 0 THEN { << >> }
    ELSE LET shorter == SeqsUpTo(S, n - 1)
         IN  shorter \cup
             { Append(s, x) : s \in { t \in shorter : Len(t) = n - 1 }, x \in S }

DetectionLists == SeqsUpTo(ItemPool, MaxItems)

(***************************************************************************)
(* runSensorLogic.  gas_level_percent is a JSON number, or undefined when  *)
(* the report carries no such field (undefined > 50 is false); door_status *)
(* is a string, "undefined" standing for a report without the field.       *)
(***************************************************************************)
Number(n) == [type |-> "number", value |-> n]
Undefined == [type |-> "undefined"]
GasThreshold == 50

AllClear == "Sensor: All clear."
GasAlert == "Sensor Alert: High gas level detected!"
DoorAlert == "Sensor Alert: Door is open."

\* x >= n
AtLeast(x, n) == x.type = "number" /\ x.value >= n

\* x > n of JavaScript
GreaterThan(x, n) == x.type = "number" /\ x.value > n

runSensorLogic(data) ==
    IF GreaterThan(data.gas_level_percent, GasThreshold)
    THEN [is_alert |-> TRUE, alert_reason |-> GasAlert]
    ELSE IF data.door_status = "open"
    THEN [is_alert |-> TRUE, alert_reason |-> DoorAlert]
    ELSE [is_alert |-> FALSE, alert_reason |-> AllClear]

(***************************************************************************)
(* getRecipeFromHF.  A text is a sequence of characters; "T" and "t" stand *)
(* for the label "Title:" in upper and in lower case, "D" and "d" for      *)
(* "Description:", "w" for a word of ten letters, "a" for a letter and "1" *)
(* for a digit; "-", ".", " " and "\n" are themselves; "P" stands for the   *)
(* prompt the service was given.                                            *)
(***************************************************************************)
\* a label matched in its capitalised spelling only
CapitalTitle == { "T" }

TitleLabels == { "T", "t" }
DescLabels == { "D", "d" }

\* the length in characters of what c stands for
Width(c) ==
    IF c \in TitleLabels THEN 6
    ELSE IF c \in DescLabels THEN 12
    ELSE IF c = "w" THEN 10
    ELSE 1

RECURSIVE TextLength(_)
TextLength(s) == IF s = << >> THEN 0 ELSE Width(Head(s)) + TextLength(Tail(s))

\* what \s and trim() take for white space
IsSpace(c) == c \in { " ", "\n" }

RECURSIVE TrimStart(_)
TrimStart(s) ==
    IF s = << >> \/ ~IsSpace(Head(s)) THEN s ELSE TrimStart(Tail(s))

RECURSIVE TrimEnd(_)
TrimEnd(s) ==
    IF s = << >> \/ ~IsSpace(s[Len(s)]) THEN s
    ELSE TrimEnd(SubSeq(s, 1, Len(s) - 1))

\* String.prototype.trim
Trim(s) == TrimEnd(TrimStart(s))

StartsWith(s, sep) == Len(s) >= Len(sep) /\ SubSeq(s, 1, Len(sep)) = sep

\* String.prototype.split with a non-empty separator
RECURSIVE Split(_, _)
Split(s, sep) ==
    IF s = << >> THEN << << >> >>
    ELSE IF StartsWith(s, sep)
    THEN << << >> >> \o Split(SubSeq(s, Len(sep) + 1, Len(s)), sep)
    ELSE LET rest == Split(Tail(s), sep)
         IN  << <<Head(s)>> \o rest[1] >> \o Tail(rest)

\* the longest prefix of s without a line break: what (.*) takes
RECURSIVE UpToLineEnd(_)
UpToLineEnd(s) ==
    IF s = << >> \/ Head(s) = "\n" THEN << >>
    ELSE <<Head(s)>> \o UpToLineEnd(Tail(s))

\* block.match(/Label:\s*(.*)/i): the first occurrence of the label, the white
\* space after it (line breaks included), and the rest of that line
Match(block, labels) ==
    LET at == { i \in 1..Len(block) : block[i] \in labels }
    IN  IF at = {} THEN [matched |-> FALSE, group |-> << >>]
        ELSE LET first == CHOOSE i \in at : \A j \in at : i <= j
                 after == SubSeq(block, first + 1, Len(block))
             IN  [matched |-> TRUE, group |-> UpToLineEnd(TrimStart(after))]

\* line.replace(/^[0-9]\.\s*/, '')
StripEnumeration(line) ==
    IF Len(line) >= 2 /\ line[1] = "1" /\ line[2] = "."
    THEN TrimStart(SubSeq(line, 3, Len(line)))
    ELSE line

MinBlockLength == 10

\* the body of the loop over recipeBlocks: the recipes one block adds
ParseBlock(block) ==
    LET titleMatch == Match(block, TitleLabels)
        descMatch == Match(block, DescLabels)
        lines == Split(Trim(block), <<"\n">>)
    IN  IF titleMatch.matched /\ descMatch.matched
        THEN << [title |-> Trim(titleMatch.group),
                 description |-> Trim(descMatch.group)] >>
        ELSE IF TextLength(Trim(block)) > MinBlockLength /\ Len(lines) >= 2
        THEN << [title |-> Trim(StripEnumeration(lines[1])),
                 description |-> Trim(lines[2])] >>
        ELSE << >>

RECURSIVE ParseBlocks(_)
ParseBlocks(blocks) ==
    IF blocks = << >> THEN << >>
    ELSE ParseBlock(Head(blocks)) \o ParseBlocks(Tail(blocks))

Delimiter == <<"-", "-", "-">>

ParsingFailed(generatedText) ==
    [title |-> <<"Generated Recipes (Parsing Failed)">>,
     description |-> generatedText]

GenerationFailed ==
    [title |-> <<"Recipe Generation Failed">>,
     description |-> <<"Could not generate recipe. Check server logs.">>]

\* text.replace(prompt, ''): the text without the first occurrence of the prompt
RECURSIVE RemovePrompt(_)
RemovePrompt(text) ==
    IF text = << >> THEN << >>
    ELSE IF Head(text) = "P" THEN Tail(text)
    ELSE <<Head(text)>> \o RemovePrompt(Tail(text))

\* recipeTextResponse.generated_text.replace(prompt, '').trim()
GeneratedText(response) == Trim(RemovePrompt(response.generated_text))

\* the parsing without the recipe that salvages an unparsed text
ParsedOnly(response) ==
    ParseBlocks(Split(GeneratedText(response), Delimiter))

\* lines 141-179: the recipes parsed from the text the service returned
ParseRecipes(response) ==
    LET generatedText == GeneratedText(response)
        parsedRecipes == ParseBlocks(Split(generatedText, Delimiter))
    IN  IF Len(parsedRecipes) = 0 /\ TextLength(generatedText) > 0
        THEN << ParsingFailed(generatedText) >>
        ELSE parsedRecipes

\* the argument of getRecipeFromHF: an array of names, or a value that is
\* none (undefined, null)
List(names) == [defined |-> TRUE, names |-> names]
Missing == [defined |-> FALSE, names |-> << >>]

\* a guard that lets every argument pass
AnyList(objects) == TRUE

\* objects && objects.length > 0: the service is called
CallsService(objects) == objects.defined /\ Len(objects.names) > 0

\* getRecipeFromHF(objects), given how the call of the service ends
getRecipeFromHF(objects, outcome) ==
    IF ~CallsService(objects) THEN [recipes |-> << >>]
    ELSE IF outcome.ok THEN [recipes |-> ParseRecipes(outcome)]
    ELSE [recipes |-> << GenerationFailed >>]

(***************************************************************************)
(* State.                                                                  *)
(*   now     the server clock (new Date())                                 *)
(*   items   the fridge_items collection, in insertion order               *)
(*   events  the events collection, in insertion order                     *)
(*   ing     the POST /api/pi-data handlers, one per request               *)
(*   rcp     the GET /api/recipe handler                                   *)
(*   fridge  the GET /api/fridge-contents handler                          *)
(*   probe   a call of a function of the program on its own: the           *)
(*           arguments and, once it has run, the result                    *)
(***************************************************************************)
VARIABLES now, items, events, ing, rcp, fridge, probe

vars == <<now, items, events, ing, rcp, fridge, probe>>

NoBody == [image_base64 |-> FALSE, gas_level_percent |-> Undefined,
           door_status |-> "undefined", server_timestamp |-> 0]
NoResult == [detected_items |-> << >>, is_alert |-> FALSE, alert_reason |-> ""]
NoResponse == [status |-> 0]

\* a request that has not arrived.  vision is the state of the promise of
\* invokeLocalVision, dbErr says that the catch of step 7 ran, ev is the state
\* of the insertOne of step 8
NotReceived == [pc |-> "idle", data |-> NoBody, vision |-> "none",
                ml |-> NoResult, dbErr |-> FALSE, ev |-> "none",
                resp |-> NoResponse]

\* the sensor fields a report may carry
SensorReports ==
    { [gas_level_percent |-> Number(80), door_status |-> "closed"],
      [gas_level_percent |-> Number(20), door_status |-> "open"],
      [gas_level_percent |-> Number(20), door_status |-> "closed"] }

\* the bodies of the requests: a report with or without an image, or no body
Bodies(reports) ==
    { NoBody } \cup
    { [image_base64 |-> img, gas_level_percent |-> rep.gas_level_percent,
       door_status |-> rep.door_status, server_timestamp |-> 0] :
        img \in BOOLEAN, rep \in reports }

\* res.status(400).json({ status: "error", message: ... })
BadRequest == [status |-> 400, body |-> "error"]
\* res.status(500).json({ status: "error", message: error.message, ... })
ServerError(message) == [status |-> 500, body |-> "error", message |-> message]
\* res.status(200).json({ status: "success", received_event, ml_result })
Success(ml) == [status |-> 200, body |-> "success", ml_result |-> ml]

(***************************************************************************)
(* invokeLocalVision: what the close handler makes of the subprocess.      *)
(***************************************************************************)
VisionFailures == { "exit_code", "unparseable", "error_field" }
WriteFailure == "write_failed"

\* JSON.parse(scriptOutput) of a run that succeeded: detected_items may be
\* missing from the object
VisionResults ==
    { [has_items |-> TRUE, detected_items |-> l] : l \in DetectionLists }
    \cup { [has_items |-> FALSE, detected_items |-> << >>] }

\* visionResult.detected_items || []
DetectedItems(visionResult) ==
    IF visionResult.has_items THEN visionResult.detected_items ELSE << >>

\* a result whose alert is also raised by the detection of an item
AlertOnItems(data, visionResult) ==
    LET sensorResult == runSensorLogic(data)
    IN  [detected_items |-> DetectedItems(visionResult),
         is_alert |-> sensorResult.is_alert
                        \/ Len(DetectedItems(visionResult)) > 0,
         alert_reason |-> sensorResult.alert_reason]

\* step 6: finalMLResult
finalMLResult(data, visionResult) ==
    LET sensorResult == runSensorLogic(data)
    IN  [detected_items |-> DetectedItems(visionResult),
         is_alert |-> sensorResult.is_alert,
         alert_reason |-> sensorResult.alert_reason]

\* step 7: detected_items.map(item => ({...item, expiration_date, last_seen}))
itemsToInsert(detected, server_timestamp) ==
    [i \in 1..Len(detected) |->
        [name |-> detected[i].name,
         expiration_date |-> ToExpirationDate(detected[i].expiration_date),
         last_seen |-> server_timestamp]]

\* step 8: { ...data, ml_result: finalMLResult }
documentToInsert(data, ml) ==
    [image_base64 |-> data.image_base64,
     gas_level_percent |-> data.gas_level_percent,
     door_status |-> data.door_status,
     server_timestamp |-> data.server_timestamp,
     ml_result |-> ml]

(***************************************************************************)
(* The collections.                                                        *)
(***************************************************************************)
\* a deleteMany that deletes nothing
DeleteNone(coll) == coll

\* deleteMany({})
DeleteAll(coll) == << >>

\* insertMany(docs), of which the first n are inserted
InsertFirst(coll, docs, n) == coll \o SubSeq(docs, 1, n)

\* an insert that replaces what the collection held
ReplaceWith(coll, doc) == << doc >>

\* insertOne(doc)
InsertOne(coll, doc) == Append(coll, doc)

(***************************************************************************)
(* POST /api/pi-data.                                                      *)
(***************************************************************************)
InFlight(r) == ing[r].pc \in { "vision", "deleteMany", "insertMany" }

\* a validation that lets every body pass
AnyBody(body) == TRUE

\* !data || !data.image_base64 is false
HasImage(body) == body.image_base64

\* a rejection that is only logged: the handler goes on to step 7 with an
\* empty result
RejectedAndIgnored(req, why) ==
    [req EXCEPT !.pc = "deleteMany", !.vision = why]

\* the promise of invokeLocalVision rejects and the catch of the handler
\* answers 500
Rejected(req, why) ==
    [req EXCEPT !.pc = "done", !.vision = why, !.resp = ServerError(why)]

\* steps 1-4: validation, the timestamp, and the spawn of the vision process;
\* a throw of stdin.write rejects the promise at once
Receive(r, reports) ==
    /\ ing[r].pc = "idle"
    /\ \A s \in Requests : s < r => ing[s].pc # "idle"
    /\ \E body \in Bodies(reports) :
          IF ~HasImage(body)
          THEN ing' = [ing EXCEPT ![r].pc = "done", ![r].data = body,
                                  ![r].resp = BadRequest]
          ELSE \E written \in BOOLEAN :
                  LET data == [body EXCEPT !.server_timestamp = now]
                      spawned == [ing[r] EXCEPT !.data = data, !.pc = "vision",
                                                !.vision = "pending"]
                  IN  ing' = [ing EXCEPT
                                ![r] = IF written THEN spawned
                                       ELSE Rejected(spawned, WriteFailure)]
    /\ UNCHANGED <<now, items, events, rcp, fridge, probe>>

\* the close handler rejects
VisionFail(r) ==
    /\ ing[r].pc = "vision"
    /\ \E why \in VisionFailures :
          ing' = [ing EXCEPT ![r] = Rejected(@, why)]
    /\ UNCHANGED <<now, items, events, rcp, fridge, probe>>

\* the close handler resolves; steps 5 and 6, and deleteMany is sent
VisionDone(r, results) ==
    /\ ing[r].pc = "vision"
    /\ \E visionResult \in results :
          ing' = [ing EXCEPT
                    ![r].vision = "resolved",
                    ![r].ml = finalMLResult(ing[r].data, visionResult),
                    ![r].pc = "deleteMany"]
    /\ UNCHANGED <<now, items, events, rcp, fridge, probe>>

\* step 7 without its try/catch: an error of the store reaches the catch of
\* the handler, which answers 500
RespondUnlessStoreFailed(req, dbErr, throws) ==
    IF dbErr
    THEN [req EXCEPT !.pc = "done", !.dbErr = TRUE,
                     !.resp = ServerError("store")]
    ELSE [req EXCEPT !.pc = "done",
                     !.ev = IF throws THEN "caught" ELSE "pending",
                     !.resp = Success(req.ml)]

\* steps 8 and 9, after step 7 ended with or without an error caught:
\* eventsCollection.insertOne either throws at once (caught and logged) or
\* returns a promise nobody awaits; then the 200 response
LogAndRespond(req, dbErr, throws) ==
    [req EXCEPT !.pc = "done",
                !.dbErr = dbErr,
                !.ev = IF throws THEN "caught" ELSE "pending",
                !.resp = Success(req.ml)]

\* an insertMany that is sent and not awaited: steps 8 and 9 run at once
InsertNotAwaited(req) ==
    [LogAndRespond(req, FALSE, FALSE) EXCEPT !.pc = "insertMany"]

\* await itemsCollection.insertMany(itemsToInsert): the handler waits
AwaitInsertMany(req) == [req EXCEPT !.pc = "insertMany"]

\* step 7, first half: deleteMany({}) is applied or fails; when it is applied
\* and items were detected, insertMany is sent
DeleteMany(r) ==
    /\ ing[r].pc = "deleteMany"
    /\ \E ok \in BOOLEAN :
          IF ok /\ Len(ing[r].ml.detected_items) > 0
          THEN /\ items' = DeleteAll(items)
               /\ ing' = [ing EXCEPT ![r] = AwaitInsertMany(@)]
          ELSE \E throws \in BOOLEAN :
                  /\ items' = IF ok THEN DeleteAll(items) ELSE items
                  /\ ing' = [ing EXCEPT ![r] = LogAndRespond(@, ~ok, throws)]
    /\ UNCHANGED <<now, events, rcp, fridge, probe>>

\* step 7, second half: insertMany(itemsToInsert) is applied, or fails after
\* the documents before the failing one were inserted (an ordered insert)
InsertMany(r) ==
    /\ ing[r].pc = "insertMany"
    /\ LET docs == itemsToInsert(ing[r].ml.detected_items,
                                 ing[r].data.server_timestamp)
       IN  \E n \in 0..Len(docs), throws \in BOOLEAN :
              /\ items' = InsertFirst(items, docs, n)
              /\ ing' = [ing EXCEPT
                           ![r] = LogAndRespond(@, n < Len(docs), throws)]
    /\ UNCHANGED <<now, events, rcp, fridge, probe>>

\* the promise of insertOne settles: the document is in the collection and
\* .then logs it, or the promise rejects, and no handler is attached to it
EventInsertSettles(r) ==
    /\ ing[r].ev = "pending"
    /\ \E ok \in BOOLEAN :
          IF ok
          THEN /\ events' = InsertOne(events,
                                      documentToInsert(ing[r].data, ing[r].ml))
               /\ ing' = [ing EXCEPT ![r].ev = "saved"]
          ELSE /\ events' = events
               /\ ing' = [ing EXCEPT ![r].ev = "unhandled"]
    /\ UNCHANGED <<now, items, rcp, fridge, probe>>

(***************************************************************************)
(* GET /api/recipe.                                                        *)
(***************************************************************************)
\* the days parameter of the query string
MaxDays == 1
NoDays == [kind |-> "absent"]
Digits(n) == [kind |-> "digits", value |-> n]
NotDigits == [kind |-> "text", value |-> 0]
QueryDays == { NoDays, NotDigits } \cup { Digits(n) : n \in 0..MaxDays }

NaN == [type |-> "NaN"]
DefaultDays == 3
SampleSize == 3

\* req.query.days ? parseInt(req.query.days, 10) : 3
days_to_expire(days) ==
    IF days.kind = "absent" THEN Number(DefaultDays)
    ELSE IF days.kind = "digits" THEN Number(days.value)
    ELSE NaN

\* expiry_limit.setDate(today.getDate() + days_to_expire)
expiry_limit(today, days) ==
    IF days.type = "number" THEN DateValue(today.time + days.value)
    ELSE InvalidDate

\* a window without its last day: $lt for $lte
ExpiringBefore(doc, today, limit) ==
    /\ doc.expiration_date.kind = "date"
    /\ doc.expiration_date.valid
    /\ limit.valid
    /\ today.time <= doc.expiration_date.time
    /\ doc.expiration_date.time < limit.time

\* { expiration_date: { $gte: today, $lte: expiry_limit } }: only a Date is
\* compared with a Date
Expiring(doc, today, limit) ==
    /\ doc.expiration_date.kind = "date"
    /\ doc.expiration_date.valid
    /\ limit.valid
    /\ today.time <= doc.expiration_date.time
    /\ doc.expiration_date.time <= limit.time

\* find(filter).toArray()
expiringItems(coll, today, limit) ==
    SelectSeq(coll, LAMBDA doc : Expiring(doc, today, limit))

\* docs.map(item => item.name)
Names(docs) == [i \in 1..Len(docs) |-> docs[i].name]

\* the documents of coll at the positions pos, in the order of coll
RECURSIVE Pick(_, _)
Pick(coll, pos) ==
    IF coll = << >> THEN << >>
    ELSE (IF Len(coll) \in pos THEN Pick(SubSeq(coll, 1, Len(coll) - 1), pos)
                                    \o << coll[Len(coll)] >>
          ELSE Pick(SubSeq(coll, 1, Len(coll) - 1), pos))

\* aggregate([{ $sample: { size } }]): size documents, or all when there are
\* fewer; which ones is not determined
Samples(coll, size) ==
    { Pick(coll, pos) :
        pos \in { q \in SUBSET (1..Len(coll)) :
                    Cardinality(q) = IF Len(coll) < size THEN Len(coll) ELSE size } }

\* what hf.textGeneration may answer in the system's runs: the prompt and a
\* completion, or a completion alone
GeneratedTexts ==
    { <<"P", " ", "T", "a", "\n", "D", "a">>, <<"a">> }
\* the call throws, or returns a text
ServiceOutcomes ==
    { [ok |-> FALSE, generated_text |-> << >>] }
    \cup { [ok |-> TRUE, generated_text |-> t] : t \in GeneratedTexts }

NotFound == [status |-> 404, body |-> "error"]
RecipeFailure == [status |-> 500, body |-> "error"]
RecipeSuccess(itemsList, recipe) ==
    [status |-> 200, body |-> "success", recipe_for |-> itemsList,
     recipe |-> recipe]

\* no request yet.  days is the parameter, sampled says that the $sample was
\* sent, prompted is the list the service was called with, service says how
\* that call ended, error says that the catch of the handler ran
NoRecipeRequest ==
    [pc |-> "idle", days |-> NoDays, today |-> InvalidDate,
     limit |-> InvalidDate, itemsList |-> << >>, sampled |-> FALSE,
     prompted |-> << >>, service |-> "none", error |-> FALSE,
     resp |-> NoResponse]

\* a query of the store throws and the catch of the handler answers 500
QueryFailed(req) == [req EXCEPT !.pc = "done", !.error = TRUE,
                                !.resp = RecipeFailure]

\* lines 303-318: the window, and the find is sent
RecipeReceive ==
    /\ rcp.pc = "idle"
    /\ \E days \in QueryDays :
          LET today == DateValue(now)
          IN  rcp' = [rcp EXCEPT
                        !.pc = "find",
                        !.days = days,
                        !.today = today,
                        !.limit = expiry_limit(today, days_to_expire(days))]
    /\ UNCHANGED <<now, items, events, ing, fridge, probe>>

\* a handler without the check for an empty list
AlwaysGenerate(req, itemsList) ==
    [req EXCEPT !.pc = "textGeneration", !.itemsList = itemsList,
                !.prompted = IF CallsService(List(itemsList)) THEN itemsList
                             ELSE << >>]

\* what follows the list of names: 404 when it is empty, else getRecipeFromHF,
\* which calls the service with the list
RespondOrGenerate(req, itemsList) ==
    IF Len(itemsList) = 0
    THEN [req EXCEPT !.pc = "done", !.itemsList = itemsList, !.resp = NotFound]
    ELSE [req EXCEPT !.pc = "textGeneration", !.itemsList = itemsList,
                     !.prompted = IF CallsService(List(itemsList))
                                  THEN itemsList ELSE << >>]

\* lines 313-329: the find answers; no expiring item sends the $sample
RecipeFind ==
    /\ rcp.pc = "find"
    /\ \E ok \in BOOLEAN :
          IF ~ok
          THEN rcp' = QueryFailed(rcp)
          ELSE LET itemsList == Names(expiringItems(items, rcp.today, rcp.limit))
               IN  IF Len(itemsList) = 0
                   THEN rcp' = [rcp EXCEPT !.pc = "sample", !.sampled = TRUE]
                   ELSE rcp' = RespondOrGenerate(rcp, itemsList)
    /\ UNCHANGED <<now, items, events, ing, fridge, probe>>

\* lines 325-336: the $sample answers
RecipeSample ==
    /\ rcp.pc = "sample"
    /\ \E ok \in BOOLEAN :
          IF ~ok
          THEN rcp' = QueryFailed(rcp)
          ELSE \E randomItems \in Samples(items, SampleSize) :
                  rcp' = RespondOrGenerate(rcp, Names(randomItems))
    /\ UNCHANGED <<now, items, events, ing, fridge, probe>>

\* how the call of the service ended for the handler
Ended(outcome) == IF outcome.ok THEN "returned" ELSE "threw"

\* a getRecipeFromHF without its try/catch: the error of the service reaches
\* the catch of the handler, which answers 500
GeneratedOrThrown(req, outcome) ==
    IF outcome.ok
    THEN [req EXCEPT
            !.pc = "done",
            !.service = Ended(outcome),
            !.resp = RecipeSuccess(req.itemsList,
                        getRecipeFromHF(List(req.itemsList), outcome))]
    ELSE [QueryFailed(req) EXCEPT !.service = Ended(outcome)]

\* getRecipeFromHF returns and the handler answers 200 with what it returned
Generated(req, outcome) ==
    [req EXCEPT
        !.pc = "done",
        !.service = Ended(outcome),
        !.resp = RecipeSuccess(req.itemsList,
                    getRecipeFromHF(List(req.itemsList), outcome))]

\* lines 339-345: the service answers or fails; getRecipeFromHF returns
RecipeGenerated ==
    /\ rcp.pc = "textGeneration"
    /\ \E outcome \in ServiceOutcomes : rcp' = Generated(rcp, outcome)
    /\ UNCHANGED <<now, items, events, ing, fridge, probe>>

RecipeSteps ==
    \/ RecipeReceive
    \/ RecipeFind
    \/ RecipeSample
    \/ RecipeGenerated

(***************************************************************************)
(* GET /api/fridge-contents.                                               *)
(***************************************************************************)
NoFridgeRequest == [pc |-> "idle", resp |-> NoResponse]

\* { status: "success", count: items.length, items: items }
Contents(docs) ==
    [status |-> 200, body |-> "success", count |-> Len(docs), items |-> docs]
ContentsFailure == [status |-> 500, body |-> "error"]

\* the request arrives and find({}) is sent
FridgeReceive ==
    /\ fridge.pc = "idle"
    /\ fridge' = [fridge EXCEPT !.pc = "find"]
    /\ UNCHANGED <<now, items, events, ing, rcp, probe>>

\* find({}).toArray() answers with the collection as it is, or fails
FridgeFind ==
    /\ fridge.pc = "find"
    /\ \E ok \in BOOLEAN :
          fridge' = [pc |-> "done",
                     resp |-> IF ok THEN Contents(items) ELSE ContentsFailure]
    /\ UNCHANGED <<now, items, events, ing, rcp, probe>>

FridgeSteps ==
    \/ FridgeReceive
    \/ FridgeFind

Tick ==
    /\ now < MaxTime
    /\ now' = now + 1
    /\ UNCHANGED <<items, events, ing, rcp, fridge, probe>>

\* what an earlier run of the server may have left in fridge_items
LegacyItems ==
    << [name |-> "milk", expiration_date |-> DateValue(1), last_seen |-> 0],
       [name |-> "fish", expiration_date |-> DateValue(5), last_seen |-> 0],
       [name |-> "egg", expiration_date |-> NullValue, last_seen |-> 0],
       [name |-> "jam", expiration_date |-> InvalidDate, last_seen |-> 0] >>

NoProbe == [called |-> "nothing"]

Init ==
    /\ now = 1
    /\ items \in { << >>, LegacyItems }
    /\ events = << >>
    /\ ing = [r \in Requests |-> NotReceived]
    /\ rcp = NoRecipeRequest
    /\ fridge = NoFridgeRequest
    /\ probe = NoProbe

\* ingest cycles that do not overlap: a request is received only when no
\* other is being handled and no event write is outstanding
SerialReceive(r, reports) ==
    /\ \A s \in Requests : ~InFlight(s) /\ ing[s].ev # "pending"
    /\ Receive(r, reports)

IngestSteps(results) ==
    \/ \E r \in Requests : VisionFail(r)
    \/ \E r \in Requests : VisionDone(r, results)
    \/ \E r \in Requests : DeleteMany(r)
    \/ \E r \in Requests : InsertMany(r)
    \/ \E r \in Requests : EventInsertSettles(r)

(***************************************************************************)
(* The system: any number of requests of the three kinds, interleaved.     *)
(***************************************************************************)
Next ==
    \/ \E r \in Requests : Receive(r, SensorReports)
    \/ IngestSteps(VisionResults)
    \/ RecipeSteps
    \/ FridgeSteps
    \/ Tick

Spec == Init /\ [][Next]_vars

(***************************************************************************)
(* Parts of the system, each a restriction of Next to some of its          *)
(* requests.                                                               *)
(***************************************************************************)
\* the ingest requests alone, their cycles overlapping at will
IngestNext ==
    \/ \E r \in Requests : Receive(r, SensorReports)
    \/ IngestSteps(VisionResults)
    \/ Tick

IngestSpec == Init /\ [][IngestNext]_vars

\* the ingest requests alone, one cycle after the other
SerialNext ==
    \/ \E r \in Requests : SerialReceive(r, SensorReports)
    \/ IngestSteps(VisionResults)
    \/ Tick

SerialSpec == Init /\ [][SerialNext]_vars

\* a recipe request beside one ingest cycle
QuietReport == { [gas_level_percent |-> Number(20), door_status |-> "closed"] }

RecipeNext ==
    \/ Receive(1, QuietReport)
    \/ IngestSteps(VisionResults)
    \/ RecipeSteps
    \/ Tick

RecipeSpec == Init /\ [][RecipeNext]_vars

\* a recipe request beside one ingest cycle, the store filled at the start
\* and the vision detecting an item at least
ItemsDetected == { v \in VisionResults : Len(DetectedItems(v)) > 0 }

StockedInit ==
    /\ now = 1
    /\ items = LegacyItems
    /\ events = << >>
    /\ ing = [r \in Requests |-> NotReceived]
    /\ rcp = NoRecipeRequest
    /\ fridge = NoFridgeRequest
    /\ probe = NoProbe

StockedNext ==
    \/ Receive(1, QuietReport)
    \/ IngestSteps(ItemsDetected)
    \/ RecipeSteps
    \/ Tick

StockedSpec == StockedInit /\ [][StockedNext]_vars

\* a fridge-contents request beside ingest cycles that follow one another
ReaderNext ==
    \/ \E r \in Requests : SerialReceive(r, QuietReport)
    \/ IngestSteps(VisionResults)
    \/ FridgeSteps
    \/ Tick

ReaderSpec == Init /\ [][ReaderNext]_vars

(***************************************************************************)
(* Progress.  The MongoDB driver settles every operation it was given, so  *)
(* the steps that wait for the store are taken once they are enabled.  The *)
(* vision subprocess and the text-generation service are outside the       *)
(* server: invokeLocalVision settles its promise only in the close handler *)
(* of the subprocess and getRecipeFromHF only when hf.textGeneration       *)
(* settles; the code sets no timer for either, so nothing obliges these    *)
(* steps to happen.  Nor is a client obliged to send a request.            *)
(***************************************************************************)
StoreAnswers ==
    /\ \A r \in Requests :
          /\ WF_vars(DeleteMany(r))
          /\ WF_vars(InsertMany(r))
          /\ WF_vars(EventInsertSettles(r))
    /\ WF_vars(RecipeFind)
    /\ WF_vars(RecipeSample)

LiveSpec == Init /\ [][RecipeNext]_vars /\ StoreAnswers

(***************************************************************************)
(* runSensorLogic on its own, over every report.                           *)
(***************************************************************************)
MaxGas == 100

SensorInputs ==
    { [gas_level_percent |-> g, door_status |-> d] :
        g \in { Undefined } \cup { Number(n) : n \in 0..MaxGas },
        d \in { "open", "closed", "OPEN", "undefined" } }

SensorInit ==
    /\ now = 1
    /\ items = << >>
    /\ events = << >>
    /\ ing = [r \in Requests |-> NotReceived]
    /\ rcp = NoRecipeRequest
    /\ fridge = NoFridgeRequest
    /\ probe \in { [called |-> "runSensorLogic", data |-> d, returned |-> FALSE,
                    result |-> [is_alert |-> FALSE, alert_reason |-> ""]] :
                    d \in SensorInputs }

SensorCall ==
    /\ probe.called = "runSensorLogic"
    /\ ~probe.returned
    /\ probe' = [probe EXCEPT !.returned = TRUE,
                              !.result = runSensorLogic(probe.data)]
    /\ UNCHANGED <<now, items, events, ing, rcp, fridge>>

SensorSpec == SensorInit /\ [][SensorCall]_vars

(***************************************************************************)
(* getRecipeFromHF on its own: probe holds the argument, how the call of   *)
(* the service would end, whether the service was called, and the result.  *)
(***************************************************************************)
RequesterCalls(arguments, outcomes) ==
    { [called |-> "getRecipeFromHF", objects |-> o, outcome |-> out,
       returned |-> FALSE, requested |-> FALSE, result |-> [recipes |-> << >>]] :
        o \in arguments, out \in outcomes }

Arguments == { Missing, List(<< >>), List(<<"milk">>) }

RequesterCall ==
    /\ probe.called = "getRecipeFromHF"
    /\ ~probe.returned
    /\ probe' = [probe EXCEPT
                   !.returned = TRUE,
                   !.requested = CallsService(probe.objects),
                   !.result = getRecipeFromHF(probe.objects, probe.outcome)]
    /\ UNCHANGED <<now, items, events, ing, rcp, fridge>>

\* the recipe request beside one ingest cycle, and a call of getRecipeFromHF
\* with an argument the endpoint never passes
RequesterInit ==
    /\ now = 1
    /\ items \in { << >>, LegacyItems }
    /\ events = << >>
    /\ ing = [r \in Requests |-> NotReceived]
    /\ rcp = NoRecipeRequest
    /\ fridge = NoFridgeRequest
    /\ probe \in RequesterCalls(Arguments, ServiceOutcomes)

RequesterNext ==
    \/ RecipeNext
    \/ RequesterCall

RequesterSpec == RequesterInit /\ [][RequesterNext]_vars

(***************************************************************************)
(* The parsing of getRecipeFromHF over the texts the service may return.   *)
(* A text is written as blocks joined by the delimiter, each block as      *)
(* lines joined by line breaks; the service may repeat the prompt in       *)
(* front of it and end it with a line break.  probe.blocks keeps the       *)
(* blocks the text was written from.                                       *)
(***************************************************************************)
\* lines of one block
MaxLines == 2
\* blocks of one text
MaxBlocks == 2

LinePool ==
    { << >>,
      <<" ">>,
      <<"a">>,
      <<"w", "a">>,
      <<"1", ".", " ", "w", "a">>,
      <<"T", " ", "a", " ">>,
      <<"t", "w">>,
      <<"D", " ", "w">>,
      <<"d", "a", " ">>,
      <<"T">> }

RECURSIVE Join(_, _)
Join(parts, sep) ==
    IF parts = << >> THEN << >>
    ELSE IF Len(parts) = 1 THEN parts[1]
    ELSE parts[1] \o sep \o Join(Tail(parts), sep)

BlockPool == SeqsUpTo(LinePool, MaxLines) \ { << >> }
Responses == SeqsUpTo(BlockPool, MaxBlocks) \ { << >> }

\* the text of the blocks
Render(blocks) ==
    Join([i \in 1..Len(blocks) |-> Join(blocks[i], <<"\n">>)], Delimiter)

Prefixes == { << >>, <<"P", " ">> }
Suffixes == { << >>, <<"\n">> }

ParseInit ==
    /\ now = 1
    /\ items = << >>
    /\ events = << >>
    /\ ing = [r \in Requests |-> NotReceived]
    /\ rcp = NoRecipeRequest
    /\ fridge = NoFridgeRequest
    /\ probe \in
          { [called |-> "getRecipeFromHF", objects |-> List(<<"milk">>),
             outcome |-> [ok |-> TRUE,
                          generated_text |-> pre \o Render(blocks) \o suf],
             blocks |-> blocks, returned |-> FALSE, requested |-> FALSE,
             result |-> [recipes |-> << >>]] :
              blocks \in Responses, pre \in Prefixes, suf \in Suffixes }

ParseSpec == ParseInit /\ [][RequesterCall]_vars

(***************************************************************************)
(* Properties.                                                             *)
(***************************************************************************)
\* the request's cycle ran to its response and its store writes succeeded
Replaced(r) ==
    /\ ing[r].pc = "done"
    /\ ing[r].vision = "resolved"
    /\ ~ing[r].dbErr

\* the stored expiration_date is the one the detection carried
SameExpiry(stored, raw) ==
    IF raw.kind # "string" THEN stored = NullValue
    ELSE IF raw.parses THEN stored = DateValue(raw.day)
    ELSE stored.kind = "date" /\ ~stored.valid

\* coll holds the detections of request r, one document each, and nothing else
Reflects(coll, r) ==
    LET detected == ing[r].ml.detected_items
    IN  /\ Len(coll) = Len(detected)
        /\ \A i \in 1..Len(detected) :
              /\ coll[i].name = detected[i].name
              /\ coll[i].last_seen = ing[r].data.server_timestamp
              /\ SameExpiry(coll[i].expiration_date,
                            detected[i].expiration_date)

\* C1: when ingest cycles do not overlap, after a cycle whose vision and store
\* writes succeeded, and until a later cycle reaches its store writes,
\* fridge_items holds exactly that cycle's detections, each with the cycle's
\* timestamp as last_seen, and nothing older; it is empty when the cycle
\* detected nothing.
C1_SnapshotIsLastCycle ==
    \A r \in Requests :
        (Replaced(r) /\ \A s \in Requests : s > r => ing[s].vision # "resolved")
            => Reflects(items, r)

C1_Witness ==
    \E r, s \in Requests :
        /\ r < s
        /\ Replaced(r) /\ Replaced(s)
        /\ Len(ing[r].ml.detected_items) = MaxItems
        /\ ing[s].ml.detected_items = << >>
        /\ ing[s].data.server_timestamp > ing[r].data.server_timestamp
        /\ items = << >>

\* C2: once overlapping ingest cycles have all completed, with their store
\* writes succeeding, fridge_items holds the detections of exactly one of
\* them, never a mix.
C2_LastCompletedWriteWins ==
    LET wrote == { r \in Requests :
                     ing[r].pc = "done" /\ ing[r].vision = "resolved" }
    IN  ( /\ \A r \in Requests : ~InFlight(r)
          /\ wrote # {}
          /\ \A r \in wrote : ~ing[r].dbErr )
            => \E r \in wrote : Reflects(items, r)

\* C3: a request without a body or without image_base64 is answered 400 in
\* the step that receives it; that step leaves fridge_items and events as
\* they are, the vision process is never started for it and nothing is
\* written for it afterwards.
C3_NoImageIsRejected ==
    [][\A r \in Requests :
          (ing'[r].pc # "idle" /\ ~ing'[r].data.image_base64)
            => /\ ing'[r].pc = "done"
               /\ ing'[r].resp = BadRequest
               /\ ing'[r].vision = "none"
               /\ ing'[r].ev = "none"
               /\ IF ing[r].pc = "idle"
                  THEN items' = items /\ events' = events
                  ELSE ing'[r] = ing[r]]_vars

C3_Witness ==
    \E r \in Requests :
        /\ ing[r].resp.status = 400
        /\ ~ing[r].data.image_base64
        /\ ing[r].data # NoBody
        /\ items = LegacyItems

\* C4: when the vision step fails (exit code, unparseable output, error
\* field, or a failed write to the process), the request is answered 500 in
\* that step, which writes neither fridge_items nor events, and the request
\* writes nothing afterwards.
C4_VisionFailureAborts ==
    [][\A r \in Requests :
          ing'[r].vision \in VisionFailures \cup { WriteFailure }
            => /\ ing'[r].pc = "done"
               /\ ing'[r].resp.status = 500
               /\ ing'[r].ev = "none"
               /\ ~ing'[r].dbErr
               /\ IF ing[r].pc \in { "idle", "vision" }
                  THEN items' = items /\ events' = events
                  ELSE ing'[r] = ing[r]]_vars

C4_Witness ==
    \E r \in Requests :
        /\ ing[r].vision \in VisionFailures
        /\ ing[r].resp.status = 500
        /\ items = LegacyItems
        /\ events = << >>

\* C5: a request whose vision step succeeded is answered 200 with the
\* ml_result computed from the vision result and the sensor fields, also when
\* deleteMany or insertMany failed; the failure is caught and the event
\* insert is still attempted.
C5_SuccessDespiteStoreFailure ==
    \A r \in Requests :
        ing[r].vision = "resolved"
            => /\ ing[r].pc \in { "deleteMany", "insertMany", "done" }
               /\ ing[r].pc = "done"
                    => /\ ing[r].resp.status = 200
                       /\ ing[r].resp.body = "success"
                       /\ ing[r].resp.ml_result = ing[r].ml
                       /\ ing[r].ev # "none"

C5_Witness ==
    \E r \in Requests :
        /\ ing[r].vision = "resolved"
        /\ ing[r].dbErr
        /\ ing[r].resp.status = 200
        /\ Len(ing[r].resp.ml_result.detected_items) > 0
        /\ ing[r].ev = "saved"

\* C6: a failure of the event insert, thrown at once or a rejection of its
\* promise, is caught by a handler, and the response is the success response.
C6_EventFailureIsHandled ==
    \A r \in Requests :
        ing[r].ev \in { "caught", "unhandled" }
            => ing[r].ev = "caught" /\ ing[r].resp.status = 200

\* C7: a cycle whose vision succeeded issues one event insert; an insert that
\* succeeds appends one document, the request's payload with the ml_result of
\* its response; no other step changes events, which so only grows.
C7_OneEventPerCycle ==
    /\ [](\A r \in Requests :
             /\ (ing[r].pc = "done" /\ ing[r].vision = "resolved")
                    => ing[r].ev # "none"
             /\ ing[r].ev # "none" => ing[r].vision = "resolved")
    /\ [](Len(events) = Cardinality({ r \in Requests : ing[r].ev = "saved" }))
    /\ [][\/ events' = events
          \/ \E r \in Requests :
                /\ ing[r].ev = "pending" /\ ing'[r].ev = "saved"
                /\ Len(events') = Len(events) + 1
                /\ SubSeq(events', 1, Len(events)) = events
                /\ LET doc == events'[Len(events')]
                   IN  /\ doc.ml_result = ing[r].resp.ml_result
                       /\ doc.gas_level_percent = ing[r].data.gas_level_percent
                       /\ doc.door_status = ing[r].data.door_status
                       /\ doc.server_timestamp = ing[r].data.server_timestamp
                       /\ doc.image_base64]_vars
    /\ [][\A r \in Requests :
             ing'[r].ev # ing[r].ev => ing[r].ev \in { "none", "pending" }]_vars

C7_Witness ==
    /\ Len(events) = MaxRequests
    /\ \A r \in Requests : ing[r].ev = "saved"
    /\ events[1].ml_result # events[2].ml_result

\* C8: runSensorLogic returns the first match of: gas_level_percent > 50, an
\* alert with the gas reason whatever the door; else door_status "open", an
\* alert with the door reason; else no alert, with the all-clear reason.
C8_SensorPolicy ==
    probe.called = "runSensorLogic" /\ probe.returned
        => LET gas == probe.data.gas_level_percent
               high == gas.type = "number" /\ gas.value > 50
               open == probe.data.door_status = "open"
           IN  /\ high => probe.result =
                   [is_alert |-> TRUE,
                    alert_reason |-> "Sensor Alert: High gas level detected!"]
               /\ (~high /\ open) => probe.result =
                   [is_alert |-> TRUE,
                    alert_reason |-> "Sensor Alert: Door is open."]
               /\ (~high /\ ~open) => probe.result =
                   [is_alert |-> FALSE, alert_reason |-> "Sensor: All clear."]

C8_Witness ==
    /\ probe.called = "runSensorLogic" /\ probe.returned
    /\ probe.data.gas_level_percent = Number(51)
    /\ probe.data.door_status = "open"
    /\ probe.result.alert_reason = GasAlert

\* a store query of the recipe request is answered in this step
FindAnswers == rcp.pc = "find" /\ rcp'.pc # "find" /\ ~rcp'.error
SampleAnswers == rcp.pc = "sample" /\ rcp'.pc # "sample" /\ ~rcp'.error

\* C9: a recipe request whose queries find fridge_items empty is answered 404
\* and the text-generation service is not called for it.
C9_EmptyFridgeIsNotFound ==
    [][/\ (FindAnswers /\ items = << >>)
            => rcp'.pc = "sample" /\ rcp'.prompted = << >>
       /\ (SampleAnswers /\ items = << >>)
            => /\ rcp'.pc = "done"
               /\ rcp'.resp.status = 404
               /\ rcp'.prompted = << >>
       /\ rcp.resp.status = 404 => rcp' = rcp]_vars

C9_Witness ==
    /\ rcp.pc = "done"
    /\ rcp.resp.status = 404
    /\ rcp.prompted = << >>
    /\ items = << >>
    /\ \E r \in Requests : Replaced(r)

\* the stored document has an expiration date within n days from day
InWindow(doc, day, n) ==
    /\ doc.expiration_date.kind = "date"
    /\ doc.expiration_date.valid
    /\ day <= doc.expiration_date.time
    /\ doc.expiration_date.time <= day + n

\* names are the names of documents at distinct positions of coll
SampledFrom(names, coll) ==
    \E at \in [1..Len(names) -> 1..Len(coll)] :
        /\ \A i, j \in 1..Len(names) : i # j => at[i] # at[j]
        /\ \A i \in 1..Len(names) : coll[at[i]].name = names[i]

\* C10: with a window of N days (3 when the request names none) from the time
\* of the request, the names the service is called with and recipe_for are
\* the names of the stored items whose expiration_date is a date in
\* [now, now + N], when the query finds one; else they are the names of at
\* most 3 documents of the store, and the $sample is sent only when the query
\* found none.
C10_ExpiringElseSample ==
    [][LET numeric == rcp.days.kind \in { "absent", "digits" }
           n == IF rcp.days.kind = "digits" THEN rcp.days.value ELSE 3
           expiring == SelectSeq(items,
                           LAMBDA doc : InWindow(doc, rcp.today.time, n))
       IN  /\ (rcp.pc = "idle" /\ rcp'.pc # "idle") => rcp'.today.time = now
           /\ (FindAnswers /\ numeric /\ expiring # << >>)
                => /\ rcp'.pc = "textGeneration"
                   /\ rcp'.itemsList = Names(expiring)
                   /\ rcp'.prompted = Names(expiring)
                   /\ ~rcp'.sampled
           /\ (FindAnswers /\ numeric /\ expiring = << >>)
                => rcp'.pc = "sample" /\ rcp'.sampled
           /\ (rcp'.sampled /\ ~rcp.sampled)
                => FindAnswers /\ (numeric => expiring = << >>)
           /\ SampleAnswers
                => /\ rcp.sampled
                   /\ Len(rcp'.itemsList) <= 3
                   /\ SampledFrom(rcp'.itemsList, items)
                   /\ rcp'.prompted = rcp'.itemsList
           /\ (rcp.pc = "textGeneration" /\ rcp'.pc # "textGeneration")
                => /\ rcp'.resp.status = 200
                   /\ rcp'.resp.recipe_for = rcp.itemsList
                   /\ rcp.prompted = rcp.itemsList
                   /\ rcp'.itemsList = rcp.itemsList]_vars

C10_Witness ==
    /\ rcp.pc = "done"
    /\ rcp.resp.status = 200
    /\ ~rcp.sampled
    /\ rcp.days = NoDays
    /\ rcp.today.time = 2
    /\ rcp.resp.recipe_for = <<"fish">>
    /\ Len(items) > 1

\* C11: the text-generation service is never called with an empty list of
\* names: getRecipeFromHF given an empty list, or no list, returns no recipes
\* and does not call the service, and the recipe request reaches
\* getRecipeFromHF only with a list that is not empty.
C11_NoCallWithoutItems ==
    /\ probe.returned
         => /\ probe.requested
                 => probe.objects.defined /\ probe.objects.names # << >>
            /\ (~probe.objects.defined \/ probe.objects.names = << >>)
                 => probe.result = [recipes |-> << >>]
    /\ rcp.pc = "textGeneration"
         => rcp.itemsList # << >> /\ rcp.prompted = rcp.itemsList
    /\ rcp.prompted # << >> => rcp.prompted = rcp.itemsList

C11_Witness ==
    /\ probe.returned
    /\ probe.objects = Missing
    /\ ~probe.outcome.ok
    /\ probe.result.recipes = << >>
    /\ rcp.resp.status = 404
    /\ rcp.sampled

\* C12: when the call of the text-generation service fails for a list that
\* is not empty, getRecipeFromHF returns one recipe, the one that flags the
\* failed generation, and the recipe request is answered 200 with it, not
\* with an error.
C12_ServiceFailureIsRecovered ==
    rcp.service = "threw"
        => /\ rcp.pc = "done"
           /\ ~rcp.error
           /\ rcp.itemsList # << >>
           /\ rcp.resp.status = 200
           /\ rcp.resp.body = "success"
           /\ rcp.resp.recipe_for = rcp.itemsList
           /\ Len(rcp.resp.recipe.recipes) = 1
           /\ rcp.resp.recipe.recipes[1].title = <<"Recipe Generation Failed">>

C12_Witness ==
    /\ rcp.service = "threw"
    /\ rcp.resp.status = 200
    /\ rcp.resp.recipe.recipes = << GenerationFailed >>
    /\ rcp.sampled
    /\ Len(rcp.itemsList) = 2

\* C13: every ingest request and every recipe request that was received is
\* eventually answered with a status, also when the vision subprocess never
\* exits or the text-generation call never returns.
C13_EveryRequestIsAnswered ==
    /\ \A r \in Requests : (ing[r].pc # "idle") ~> (ing[r].resp.status # 0)
    /\ (rcp.pc # "idle") ~> (rcp.resp.status # 0)

\* C14: a fridge-contents read that is answered while an ingest cycle
\* replaces the store returns a complete snapshot: the detections of the
\* cycle before, which replaced the store without an error, or the
\* detections of the cycle under way; never the store between the deleteMany
\* and the insertMany of the cycle.
C14_ReadersSeeWholeSnapshots ==
    [][(fridge.pc = "find" /\ fridge'.resp.status = 200)
         => \A r, s \in Requests :
               (r < s /\ Replaced(r) /\ ing[s].pc = "insertMany")
                 => \/ Reflects(fridge'.resp.items, r)
                    \/ Reflects(fridge'.resp.items, s)]_vars

\* white space, and a text of nothing else
Blank(text) == \A i \in 1..Len(text) : text[i] \in { " ", "\n" }

\* part is the text whole without the white space at its two ends
Stripped(part, whole) ==
    /\ part # << >> => ~Blank(<<part[1]>>) /\ ~Blank(<<part[Len(part)]>>)
    /\ \E i \in 0..Len(whole) :
          /\ i + Len(part) <= Len(whole)
          /\ SubSeq(whole, i + 1, i + Len(part)) = part
          /\ Blank(SubSeq(whole, 1, i))
          /\ Blank(SubSeq(whole, i + Len(part) + 1, Len(whole)))

\* the lines of the block that carry one of the labels
LabelLines(block, labels) ==
    { j \in 1..Len(block) : \E i \in 1..Len(block[j]) : block[j][i] \in labels }

\* the block yields a recipe: both labels occur in it, or it has more than
\* ten characters between its first and its last character that is no white
\* space, on two lines at least
Yields(block) ==
    \/ LabelLines(block, { "T", "t" }) # {} /\ LabelLines(block, { "D", "d" }) # {}
    \/ /\ Cardinality({ j \in 1..Len(block) : ~Blank(block[j]) }) >= 2
       /\ LET text == Join(block, <<"\n">>)
          IN  \E part \in { SubSeq(text, i, j) : i, j \in 1..Len(text) } :
                 Stripped(part, text) /\ TextLength(part) > 10

\* C15: when the service returns a text that, the prompt removed and
\* trimmed, is not empty, getRecipeFromHF returns a recipe at least; when no
\* block of the text yields a recipe it returns one recipe, whose title flags
\* the failed parsing and whose description is the whole of that text.
C15_UnparsedTextIsSalvaged ==
    LET text == probe.outcome.generated_text
        recipes == probe.result.recipes
    IN  (probe.returned /\ \E i \in 1..Len(text) : text[i] \notin { "P", " ", "\n" })
          => /\ Len(recipes) >= 1
             /\ (\A b \in 1..Len(probe.blocks) : ~Yields(probe.blocks[b]))
                  => /\ Len(recipes) = 1
                     /\ recipes[1].title = <<"Generated Recipes (Parsing Failed)">>
                     /\ Stripped(recipes[1].description,
                                 SelectSeq(text, LAMBDA c : c # "P"))

C15_Witness ==
    /\ probe.returned
    /\ Len(probe.blocks) = 2
    /\ probe.blocks[1] = << <<"T">>, <<"a">> >>
    /\ probe.blocks[2] = << <<"w", "a">> >>
    /\ probe.outcome.generated_text[1] = "P"
    /\ probe.result.recipes[1].title = <<"Generated Recipes (Parsing Failed)">>
    /\ probe.result.recipes[1].description =
          <<"T", "\n", "a", "-", "-", "-", "w", "a">>

\* the block has one line with the title label and one with the description
\* label, each label at the start of its line with a text after it
ValidBlock(block) ==
    \A labels \in { { "T", "t" }, { "D", "d" } } :
        /\ Cardinality(LabelLines(block, labels)) = 1
        /\ \A j \in LabelLines(block, labels) :
              /\ block[j][1] \in labels
              /\ ~Blank(Tail(block[j]))
              /\ \A i \in 2..Len(block[j]) :
                    block[j][i] \notin { "T", "t", "D", "d" }

\* the text after the label, on the line of the block that carries it
Labelled(block, labels) ==
    Tail(block[CHOOSE j \in LabelLines(block, labels) : TRUE])

\* C16: for a text of blocks separated by "---", k of them with a valid
\* title line and a valid description line (the labels in either case) and
\* the others empty or white space, getRecipeFromHF returns k recipes, in
\* the order of the blocks, each with the trimmed texts after the labels.
C16_OneRecipePerValidBlock ==
    LET filled == SelectSeq(probe.blocks,
                            LAMBDA b : \E j \in 1..Len(b) : ~Blank(b[j]))
        recipes == probe.result.recipes
    IN  (probe.returned /\ filled # << >>
            /\ \A k \in 1..Len(filled) : ValidBlock(filled[k]))
          => /\ Len(recipes) = Len(filled)
             /\ \A k \in 1..Len(filled) :
                   /\ Stripped(recipes[k].title,
                               Labelled(filled[k], { "T", "t" }))
                   /\ Stripped(recipes[k].description,
                               Labelled(filled[k], { "D", "d" }))

C16_Witness ==
    /\ probe.returned
    /\ probe.blocks = << << <<"t", "w">>, <<"D", " ", "w">> >>,
                         << <<"d", "a", " ">>, <<"T", " ", "a", " ">> >> >>
    /\ probe.outcome.generated_text[1] = "P"
    /\ probe.result.recipes =
          << [title |-> <<"w">>, description |-> <<"w">>],
             [title |-> <<"a">>, description |-> <<"a">>] >>

\* the order of the steps of one ingest request
StepOrder ==
    { <<"idle", "vision">>, <<"idle", "done">>, <<"vision", "deleteMany">>,
      <<"vision", "done">>, <<"deleteMany", "insertMany">>,
      <<"deleteMany", "done">>, <<"insertMany", "done">> }

\* C17: an ingest request takes its steps in the order received, validated,
\* vision, store replace, event insert, response: fridge_items is written
\* only by a request whose vision succeeded, the event insert is issued only
\* when the store replace has ended, and the 200 response is sent only when
\* the replace has ended and the event insert was issued.
C17_StepsInOrder ==
    /\ [](\A r \in Requests :
             /\ ing[r].pc \in { "deleteMany", "insertMany" }
                    => ing[r].vision = "resolved"
             /\ ing[r].ev # "none"
                    => ing[r].pc = "done" /\ ing[r].vision = "resolved"
             /\ ing[r].resp.status = 200
                    => /\ ing[r].pc = "done"
                       /\ ing[r].vision = "resolved"
                       /\ ing[r].ev # "none")
    /\ [][\A r \in Requests :
             ing'[r].pc # ing[r].pc
                => <<ing[r].pc, ing'[r].pc>> \in StepOrder]_vars
    /\ [][items' # items
             => \E r \in Requests :
                   /\ ing[r].vision = "resolved"
                   /\ ing[r].pc \in { "deleteMany", "insertMany" }
                   /\ ing'[r].pc # ing[r].pc]_vars
    /\ [][events' # events
             => \E r \in Requests :
                   /\ ing[r].pc = "done"
                   /\ ing[r].resp.status = 200
                   /\ ing[r].ev = "pending"
                   /\ ing'[r].ev = "saved"]_vars

C17_Witness ==
    \E r \in Requests :
        /\ Replaced(r)
        /\ ing[r].resp.status = 200
        /\ ing[r].ev = "saved"
        /\ Len(ing[r].ml.detected_items) = MaxItems
        /\ Reflects(items, r)
        /\ Len(events) = 1
        /\ \E s \in Requests : ing[s].pc = "vision"

\* C18: with a store that is filled at the start and ingest cycles that each
\* detect an item, a recipe request is not answered 404 (unless a write to
\* the store failed): once the cycles have ended without a store error, no
\* 404 has been given.
C18_NotFoundOnlyWhenEmpty ==
    (rcp.resp.status = 404 /\ \A r \in Requests : ~InFlight(r))
        => \E r \in Requests : ing[r].dbErr

\* C19: when the store replace of an ingest cycle fails, fridge_items holds
\* afterwards a complete snapshot: what the cycle before had stored, or all
\* the detections of the failed cycle; it is not left with a part of them or
\* empty.
C19_FailedReplaceLeavesSnapshot ==
    \A r, s \in Requests :
        ( /\ r < s
          /\ Replaced(r)
          /\ ing[s].pc = "done" /\ ing[s].vision = "resolved" /\ ing[s].dbErr )
            => Reflects(items, r) \/ Reflects(items, s)

\* the alert state of a report, by its sensor fields
AlertOf(report, result) ==
    LET gas == report.gas_level_percent
        high == gas.type = "number" /\ gas.value > 50
    IN  /\ result.is_alert = (high \/ report.door_status = "open")
        /\ result.alert_reason =
              IF high THEN "Sensor Alert: High gas level detected!"
              ELSE IF report.door_status = "open"
              THEN "Sensor Alert: Door is open."
              ELSE "Sensor: All clear."

\* C20: the alert state of an ingest cycle is computed only when the vision
\* step succeeded.  A request whose vision failed gets a response without
\* ml_result and logs no event, whatever its sensor fields; for a request
\* whose vision succeeded the alert state in the response and in the logged
\* event is the one of its gas_level_percent and door_status, whatever was
\* detected.
C20_AlertOnlyAfterVision ==
    /\ \A r \in Requests :
          /\ ing[r].vision # "resolved" => ing[r].ml = NoResult
          /\ ing[r].vision \in VisionFailures \cup { WriteFailure }
                => /\ ing[r].resp.status = 500
                   /\ "ml_result" \notin DOMAIN ing[r].resp
                   /\ ing[r].ev = "none"
          /\ ing[r].vision = "resolved"
                => /\ AlertOf(ing[r].data, ing[r].ml)
                   /\ ing[r].pc = "done"
                        => AlertOf(ing[r].data, ing[r].resp.ml_result)
    /\ \A i \in 1..Len(events) : AlertOf(events[i], events[i].ml_result)
    /\ Len(events) <= Cardinality({ r \in Requests : ing[r].vision = "resolved" })

C20_Witness ==
    \E r, s \in Requests :
        /\ ing[r].vision \in VisionFailures
        /\ ing[r].data.gas_level_percent = Number(80)
        /\ ing[r].resp.status = 500
        /\ ing[s].ev = "saved"
        /\ ing[s].data.door_status = "open"
        /\ ing[s].resp.ml_result.is_alert
        /\ Len(events) = 1
        /\ events[1].ml_result.alert_reason = DoorAlert
        /\ events[1].ml_result.detected_items = << >>

=============================================================================
